---- MODULE Spec2Model ----
(***************************************************************************)
(* Opportunity / account scoring engine of open_pipeline_account_score.py: *)
(* build_account_profiles, calculate_normalized_scores and                 *)
(* score_open_opportunities, run in that order by main() on three record   *)
(* lists (closed won, closed lost, open pipeline).                         *)
(*                                                                         *)
(* Python floats are modelled as exact rationals <<numerator, denominator>>*)
(* in lowest terms.  A date string is modelled by the day number it        *)
(* denotes, or by NoDate (None / empty string) or BadDate (a non-empty     *)
(* string strptime rejects).  The standard deviation of the cohort        *)
(* statistics is not modelled: it is irrational and nothing reads it.      *)
(***************************************************************************)
EXTENDS Integers, Sequences, FiniteSets, TLC

VARIABLES closed_won, closed_lost, open_opps, today, pc, profiles, stats,
          scored_opps, run, first

vars == <<closed_won, closed_lost, open_opps, today, pc, profiles, stats,
          scored_opps, run, first>>

\* ---------------------------------------------------------------- bounds
MaxWon == 3
MaxLost == 1
MaxOpen == 2

\* ------------------------------------------------------- exact arithmetic
Abs(n) == IF n < 0 THEN 0 - n ELSE n

RECURSIVE GCD(_, _)
GCD(a, b) == IF b = 0 THEN a ELSE GCD(b, a % b)

\* n / d in lowest terms with a positive denominator (d # 0)
Rat(n, d) ==
    LET s == IF d < 0 THEN 0 - 1 ELSE 1
        g == GCD(Abs(n), Abs(d))
    IN  <<(s * n) \div g, (s * d) \div g>>

I(n) == <<n, 1>>
RAdd(a, b) == Rat(a[1] * b[2] + b[1] * a[2], a[2] * b[2])
RSub(a, b) == Rat(a[1] * b[2] - b[1] * a[2], a[2] * b[2])
RMul(a, b) == Rat(a[1] * b[1], a[2] * b[2])
RDiv(a, b) == Rat(a[1] * b[2], a[2] * b[1])
RLt(a, b) == a[1] * b[2] < b[1] * a[2]
RLe(a, b) == a[1] * b[2] <= b[1] * a[2]
RMin(a, b) == IF RLe(a, b) THEN a ELSE b
RMax(a, b) == IF RLe(a, b) THEN b ELSE a

\* ----------------------------------------------------------- date strings
NoDate == -1
BadDate == -2
Truthy(s) == s # NoDate
Parses(s) == s >= 0

\* Optional[...] values: <<>> is None, <<v>> is v
None == <<>>
Some(v) == <<v>>

\* -------------------------------------------------------- list utilities
RECURSIVE Insert(_, _)
Insert(x, s) ==
    IF s = <<>> THEN <<x>>
    ELSE IF RLe(x, Head(s)) THEN <<x>> \o s
    ELSE <<Head(s)>> \o Insert(x, Tail(s))

RECURSIVE Sorted(_)
Sorted(s) == IF s = <<>> THEN <<>> ELSE Insert(Head(s), Sorted(Tail(s)))

\* statistics.mean / statistics.median / min / max of a non-empty list of
\* rationals
mean(s) ==
    LET RECURSIVE Tot(_)
        Tot(t) == IF t = <<>> THEN I(0) ELSE RAdd(Head(t), Tot(Tail(t)))
    IN  RDiv(Tot(s), I(Len(s)))

median(s) ==
    LET t == Sorted(s)
        n == Len(s)
    IN  IF n % 2 = 1 THEN t[(n + 1) \div 2]
        ELSE RDiv(RAdd(t[n \div 2], t[n \div 2 + 1]), I(2))

minimum(s) == Sorted(s)[1]
maximum(s) == Sorted(s)[Len(s)]

RECURSIVE SeqOfSet(_)
SeqOfSet(S) ==
    IF S = {} THEN <<>>
    ELSE LET x == CHOOSE y \in S : TRUE IN <<x>> \o SeqOfSet(S \ {x})

\* ------------------------------------------------ AccountScoringProfile
NewProfile(account_id) ==
    [ account_id             |-> account_id,
      total_closed_won       |-> 0,
      total_closed_lost      |-> 0,
      win_rate               |-> I(0),
      avg_days_to_close      |-> I(0),
      median_days_to_close   |-> I(0),
      largest_deal_amount    |-> 0,
      avg_deal_amount        |-> I(0),
      total_deal_amount      |-> 0,
      unique_products        |-> {},
      product_count          |-> 0,
      purchase_count         |-> 0,
      has_upsell             |-> FALSE,
      most_recent_close_date |-> None,
      days_since_last_close  |-> None,
      closed_opportunities   |-> <<>> ]

\* calculate_win_rate returning the ratio instead of the percentage
calculate_win_rate_ratio(p) ==
    LET total == p.total_closed_won + p.total_closed_lost
    IN  IF total > 0 THEN Rat(p.total_closed_won, total) ELSE p.win_rate

calculate_win_rate(p) ==
    LET total == p.total_closed_won + p.total_closed_lost
    IN  IF total > 0 THEN RMul(Rat(p.total_closed_won, total), I(100))
        ELSE p.win_rate

calculate_product_diversity_score(p) ==
    IF p.product_count = 0 THEN I(0)
    ELSE IF p.product_count * 20 < 100 THEN I(p.product_count * 20) ELSE I(100)

calculate_upsell_score(p) ==
    IF p.purchase_count >= 3 THEN I(100)
    ELSE IF p.purchase_count = 2 THEN I(70)
    ELSE IF p.purchase_count = 1 THEN I(30)
    ELSE I(0)

\* ------------------------------------------------ build_account_profiles
\* One pass of the closed-won loop body on the profile of the record's
\* account.  opp.items is the list of Product2 names of the record's line
\* items, "" for an item without one.
ClosedWonBody(p, opp) ==
    LET close_date_str == opp.CloseDate
        created_date_str == opp.CreatedDate
        parsed == /\ Truthy(close_date_str) /\ Truthy(created_date_str)
                  /\ Parses(close_date_str) /\ Parses(created_date_str)
        days_to_close == close_date_str - created_date_str
        amount == opp.amount
        names == {opp.items[k] : k \in 1..Len(opp.items)} \ {""}
    IN  [p EXCEPT
          !.closed_opportunities =
              IF parsed /\ days_to_close > 0
              THEN Append(@, [days_to_close |-> days_to_close,
                              amount |-> amount,
                              close_date |-> close_date_str])
              ELSE @,
          !.total_closed_won = @ + 1,
          !.total_deal_amount = @ + amount,
          !.largest_deal_amount = IF amount > @ THEN amount ELSE @,
          !.unique_products = @ \cup names,
          !.most_recent_close_date =
              IF /\ Truthy(close_date_str) /\ Parses(close_date_str)
                 /\ (@ = None \/ close_date_str > @[1])
              THEN Some(close_date_str) ELSE @]

\* profs with the entry of account a set to p
Put(profs, a, p) ==
    [x \in DOMAIN profs \cup {a} |-> IF x = a THEN p ELSE profs[x]]

\* No profile at all: the value of the profile map before the first build
NoProfiles == [a \in {} |-> NewProfile(a)]

\* The profile map kept in a module-level dict that is never cleared
StaleProfiles == profiles

\* "profiles = {}": every call of the builder starts from an empty map
FreshProfiles == NoProfiles

\* The closed-won loop with `break` for `continue`: the first record without
\* account id ends the loop
RECURSIVE ClosedWonLoopBreak(_, _)
ClosedWonLoopBreak(profs, won) ==
    IF won = <<>> THEN profs
    ELSE LET opp == Head(won)
             account_id == opp.Account
             p == IF account_id \in DOMAIN profs THEN profs[account_id]
                  ELSE NewProfile(account_id)
         IN  IF account_id = "" THEN profs
             ELSE ClosedWonLoopBreak(
                      Put(profs, account_id, ClosedWonBody(p, opp)), Tail(won))

RECURSIVE ClosedWonLoop(_, _)
ClosedWonLoop(profs, won) ==
    IF won = <<>> THEN profs
    ELSE LET opp == Head(won)
             account_id == opp.Account
             p == IF account_id \in DOMAIN profs THEN profs[account_id]
                  ELSE NewProfile(account_id)
         IN  IF account_id = "" THEN ClosedWonLoop(profs, Tail(won))
             ELSE ClosedWonLoop(Put(profs, account_id, ClosedWonBody(p, opp)),
                                Tail(won))

\* The closed-lost loop without the `account_id in profiles` test: a lost
\* record of an unknown account creates a profile
RECURSIVE ClosedLostLoopCreating(_, _)
ClosedLostLoopCreating(profs, lost) ==
    IF lost = <<>> THEN profs
    ELSE LET account_id == Head(lost).Account
             p == IF account_id \in DOMAIN profs THEN profs[account_id]
                  ELSE NewProfile(account_id)
         IN  IF account_id # ""
             THEN ClosedLostLoopCreating(
                      Put(profs, account_id,
                          [p EXCEPT !.total_closed_lost = @ + 1]),
                      Tail(lost))
             ELSE ClosedLostLoopCreating(profs, Tail(lost))

\* The closed-lost loop incrementing the wrong counter
RECURSIVE ClosedLostLoopWrongCounter(_, _)
ClosedLostLoopWrongCounter(profs, lost) ==
    IF lost = <<>> THEN profs
    ELSE LET account_id == Head(lost).Account
         IN  IF account_id # "" /\ account_id \in DOMAIN profs
             THEN ClosedLostLoopWrongCounter(
                      [profs EXCEPT ![account_id].total_closed_won = @ + 1],
                      Tail(lost))
             ELSE ClosedLostLoopWrongCounter(profs, Tail(lost))

RECURSIVE ClosedLostLoop(_, _)
ClosedLostLoop(profs, lost) ==
    IF lost = <<>> THEN profs
    ELSE LET account_id == Head(lost).Account
         IN  IF account_id # "" /\ account_id \in DOMAIN profs
             THEN ClosedLostLoop(
                      [profs EXCEPT ![account_id].total_closed_lost = @ + 1],
                      Tail(lost))
             ELSE ClosedLostLoop(profs, Tail(lost))

\* The derived metrics of one profile ("Calculate aggregated metrics")
Aggregate(p, now) ==
    LET days_list == [k \in 1..Len(p.closed_opportunities) |->
                         I(p.closed_opportunities[k].days_to_close)]
        has_sample == p.closed_opportunities # <<>>
    IN  [p EXCEPT
          !.win_rate = calculate_win_rate(p),
          !.avg_days_to_close = IF has_sample THEN mean(days_list) ELSE @,
          !.median_days_to_close = IF has_sample THEN median(days_list) ELSE @,
          !.avg_deal_amount =
              IF has_sample THEN Rat(p.total_deal_amount, p.total_closed_won)
              ELSE @,
          !.purchase_count = IF has_sample THEN p.total_closed_won ELSE @,
          !.product_count =
              IF has_sample THEN Cardinality(p.unique_products) ELSE @,
          !.has_upsell = IF has_sample THEN p.total_closed_won > 1 ELSE @,
          !.days_since_last_close =
              IF p.most_recent_close_date # None
              THEN Some(now - p.most_recent_close_date[1]) ELSE @]

build_account_profiles(won, lost, now) ==
    LET acc == ClosedLostLoop(ClosedWonLoop(FreshProfiles, won), lost)
    IN  [a \in DOMAIN acc |-> Aggregate(acc[a], now)]

\* -------------------------------------------- calculate_normalized_scores
FallbackMaxDays == 365
FallbackMaxDeal == 1000000

\* Describe without the fallback: an empty list is described by zeros
DescribeNoFallback(values, fallback) ==
    IF values = <<>> THEN <<I(0), I(0), I(0), I(0)>>
    ELSE <<minimum(values), maximum(values), median(values), mean(values)>>

\* <<min, max, median, mean>> of the values, or the fallback when empty
Describe(values, fallback) ==
    IF values = <<>> THEN fallback
    ELSE <<minimum(values), maximum(values), median(values), mean(values)>>

\* calculate_normalized_scores without the `> 0` filters: every profile is in
\* the population of every metric
calculate_normalized_scores_unfiltered(profs) ==
    LET all == SeqOfSet(DOMAIN profs)
    IN  [ win_rate |->
            Describe([k \in 1..Len(all) |-> profs[all[k]].win_rate],
                     <<I(0), I(100), I(50), I(50)>>),
          days_to_close |->
            Describe([k \in 1..Len(all) |-> profs[all[k]].avg_days_to_close],
                     <<I(0), I(FallbackMaxDays), I(90), I(90)>>),
          largest_deal |->
            Describe([k \in 1..Len(all) |->
                         I(profs[all[k]].largest_deal_amount)],
                     <<I(0), I(FallbackMaxDeal), I(50000), I(50000)>>),
          product_count |->
            Describe([k \in 1..Len(all) |-> I(profs[all[k]].product_count)],
                     <<I(0), I(10), I(1), I(1)>>) ]

calculate_normalized_scores(profs) ==
    LET P == DOMAIN profs
        win_rates == SeqOfSet({a \in P : profs[a].total_closed_won > 0})
        days == SeqOfSet({a \in P : RLt(I(0), profs[a].avg_days_to_close)})
        deals == SeqOfSet({a \in P : profs[a].largest_deal_amount > 0})
        all == SeqOfSet(P)
    IN  [ win_rate |->
            Describe([k \in 1..Len(win_rates) |-> profs[win_rates[k]].win_rate],
                     <<I(0), I(100), I(50), I(50)>>),
          days_to_close |->
            Describe([k \in 1..Len(days) |-> profs[days[k]].avg_days_to_close],
                     <<I(0), I(FallbackMaxDays), I(90), I(90)>>),
          largest_deal |->
            Describe([k \in 1..Len(deals) |->
                         I(profs[deals[k]].largest_deal_amount)],
                     <<I(0), I(FallbackMaxDeal), I(50000), I(50000)>>),
          product_count |->
            Describe([k \in 1..Len(all) |-> I(profs[all[k]].product_count)],
                     <<I(0), I(10), I(1), I(1)>>) ]

\* ---------------------------------------------- score_open_opportunities
\* f"{x:.0f}" of a non-negative rational: round half to even
Round0(r) ==
    LET q == r[1] \div r[2]
        rem == r[1] % r[2]
    IN  IF 2 * rem < r[2] THEN q
        ELSE IF 2 * rem > r[2] THEN q + 1
        ELSE IF q % 2 = 0 THEN q ELSE q + 1

Clamp(x) == RMin(I(100), RMax(I(0), x))

\* The divisors of the speed and the deal size normalisation
\* The speed divisor ignoring the cohort: always the fallback
max_days_fixed(st) == I(FallbackMaxDays)

max_days(st) ==
    IF RLt(I(0), st.days_to_close[2]) THEN st.days_to_close[2]
    ELSE I(FallbackMaxDays)

max_deal(st) ==
    IF RLt(I(0), st.largest_deal[2]) THEN st.largest_deal[2]
    ELSE I(FallbackMaxDeal)

\* speed_score normalised against the cohort minimum (tuple index 0)
speed_score_by_min(p, st) ==
    IF RLt(I(0), p.avg_days_to_close)
    THEN LET min_days == IF RLt(I(0), st.days_to_close[1])
                         THEN st.days_to_close[1] ELSE I(FallbackMaxDays)
         IN  Clamp(RMax(I(0), RSub(I(100),
                 RMul(RDiv(p.avg_days_to_close, min_days), I(100)))))
    ELSE I(50)

speed_score(p, st) ==
    IF RLt(I(0), p.avg_days_to_close)
    THEN LET speed_normalized ==
                 RMax(I(0), RSub(I(100),
                     RMul(RDiv(p.avg_days_to_close, max_days(st)), I(100))))
         IN  Clamp(speed_normalized)
    ELSE I(50)

\* deal_size_score normalised against the cohort mean (tuple index 3)
deal_size_score_by_mean(p, st) ==
    IF p.largest_deal_amount > 0
    THEN LET mean_deal == IF RLt(I(0), st.largest_deal[4])
                          THEN st.largest_deal[4] ELSE I(FallbackMaxDeal)
         IN  Clamp(RMul(RDiv(I(p.largest_deal_amount), mean_deal), I(100)))
    ELSE I(25)

deal_size_score(p, st) ==
    IF p.largest_deal_amount > 0
    THEN LET deal_normalized ==
                 RMul(RDiv(I(p.largest_deal_amount), max_deal(st)), I(100))
         IN  Clamp(deal_normalized)
    ELSE I(25)

win_rate_score(p) == RMin(I(100), p.win_rate)

\* recency_score with strict thresholds (< instead of <=)
recency_score_strict(p) ==
    IF p.days_since_last_close # None
    THEN LET d == p.days_since_last_close[1]
         IN  IF d < 90 THEN I(100)
             ELSE IF d < 180 THEN I(75)
             ELSE IF d < 365 THEN I(50)
             ELSE I(25)
    ELSE I(50)

recency_score(p) ==
    IF p.days_since_last_close # None
    THEN LET d == p.days_since_last_close[1]
         IN  IF d <= 90 THEN I(100)
             ELSE IF d <= 180 THEN I(75)
             ELSE IF d <= 365 THEN I(50)
             ELSE I(25)
    ELSE I(50)

\* account_weights with the upsell weight raised to 0.35 (weights sum to 1.1)
account_score_up35(speed, deal_size, product_mix, upsell, win_rate, recency) ==
    RAdd(RMul(speed, Rat(15, 100)),
    RAdd(RMul(deal_size, Rat(20, 100)),
    RAdd(RMul(product_mix, Rat(15, 100)),
    RAdd(RMul(upsell, Rat(35, 100)),
    RAdd(RMul(win_rate, Rat(20, 100)),
         RMul(recency, Rat(5, 100)))))))

\* The weighted sum of the six sub-scores (account_weights)
account_score(speed, deal_size, product_mix, upsell, win_rate, recency) ==
    RAdd(RMul(speed, Rat(15, 100)),
    RAdd(RMul(deal_size, Rat(20, 100)),
    RAdd(RMul(product_mix, Rat(15, 100)),
    RAdd(RMul(upsell, Rat(25, 100)),
    RAdd(RMul(win_rate, Rat(20, 100)),
         RMul(recency, Rat(5, 100)))))))

opp_amount_score(amount, p) ==
    IF RLt(I(0), p.avg_deal_amount)
    THEN LET opp_amount_ratio == RDiv(I(amount), p.avg_deal_amount)
         IN  IF RLe(Rat(3, 2), opp_amount_ratio) THEN 100
             ELSE IF RLe(I(1), opp_amount_ratio) THEN 75
             ELSE IF RLe(Rat(3, 4), opp_amount_ratio) THEN 50
             ELSE 25
    ELSE 0

\* opportunity_score with the two weights exchanged
opportunity_score_swapped(acct_score, amount_score) ==
    RAdd(RMul(acct_score, Rat(30, 100)), RMul(I(amount_score), Rat(70, 100)))

\* opportunity_score with the 30% weight of the amount score left out
opportunity_score_unweighted(acct_score, amount_score) ==
    RAdd(RMul(acct_score, Rat(70, 100)), I(amount_score))

opportunity_score(acct_score, amount_score) ==
    RAdd(RMul(acct_score, Rat(70, 100)), RMul(I(amount_score), Rat(30, 100)))

\* confidence_level with the High threshold off by one
confidence_level_above3(p) ==
    IF p.total_closed_won > 3 THEN "High"
    ELSE IF p.total_closed_won >= 2 THEN "Medium"
    ELSE "Low"

confidence_level(p) ==
    IF p.total_closed_won >= 3 THEN "High"
    ELSE IF p.total_closed_won >= 2 THEN "Medium"
    ELSE "Low"

\* The explanation naming purchase_count in place of total_closed_won
score_explanation_purchases(p) ==
    [ kind         |-> "Account has closed won deal(s)",
      closed_won   |-> p.purchase_count,
      avg_days     |-> Round0(p.avg_days_to_close),
      largest_deal |-> p.largest_deal_amount,
      purchases    |-> IF p.has_upsell THEN Some(p.purchase_count) ELSE None ]

score_explanation(p) ==
    [ kind         |-> "Account has closed won deal(s)",
      closed_won   |-> p.total_closed_won,
      avg_days     |-> Round0(p.avg_days_to_close),
      largest_deal |-> p.largest_deal_amount,
      purchases    |-> IF p.has_upsell THEN Some(p.purchase_count) ELSE None ]

NewAccountExplanation ==
    [ kind |-> "New account - no historical data available." ]

\* OpportunityScore(...) as constructed for one open opportunity
NewScore(opp, now) ==
    [ opportunity_id    |-> opp.Id,
      account_id        |-> opp.Account,
      amount            |-> opp.amount,
      stage             |-> opp.StageName,
      owner_name        |-> opp.Owner,
      close_date        |-> IF Truthy(opp.CloseDate) THEN opp.CloseDate ELSE now,
      account_score     |-> I(0),
      opportunity_score |-> I(0),
      speed_score       |-> I(0),
      deal_size_score   |-> I(0),
      product_mix_score |-> I(0),
      upsell_score      |-> I(0),
      win_rate_score    |-> I(0),
      recency_score     |-> I(0),
      confidence_level  |-> "Medium",
      score_explanation |-> [kind |-> ""] ]

\* The else branch leaving the composites at their defaults
NeutralScoreUnset(score) ==
    [score EXCEPT !.score_explanation = NewAccountExplanation]

\* "New account - no historical data": the else branch of the scorer
NeutralScore(score) ==
    [score EXCEPT
      !.account_score = I(50),
      !.opportunity_score = I(50),
      !.confidence_level = "Low",
      !.score_explanation = NewAccountExplanation]

\* The constructor raises ValueError on a non-empty CloseDate that does not
\* parse; a record without an account id never reaches it.
Raises(opp) ==
    opp.Account # "" /\ Truthy(opp.CloseDate) /\ ~Parses(opp.CloseDate)

\* The loop body for an opportunity that has an account id and does not raise
ScoreOne(opp, profs, st, now) ==
    LET score == NewScore(opp, now)
        account_id == opp.Account
    IN  IF account_id \in DOMAIN profs /\ profs[account_id].total_closed_won > 0
        THEN LET profile == profs[account_id]
                 speed == speed_score(profile, st)
                 deal == deal_size_score(profile, st)
                 mix == calculate_product_diversity_score(profile)
                 upsell == calculate_upsell_score(profile)
                 wr == win_rate_score(profile)
                 rec == recency_score(profile)
                 acct == account_score(speed, deal, mix, upsell, wr, rec)
             IN  [score EXCEPT
                   !.speed_score = speed,
                   !.deal_size_score = deal,
                   !.product_mix_score = mix,
                   !.upsell_score = upsell,
                   !.win_rate_score = wr,
                   !.recency_score = rec,
                   !.account_score = acct,
                   !.opportunity_score =
                       opportunity_score(acct,
                           opp_amount_score(score.amount, profile)),
                   !.confidence_level = confidence_level(profile),
                   !.score_explanation = score_explanation(profile)]
        ELSE NeutralScore(score)

\* The result of the loop: [raised |-> TRUE] as soon as a record raises,
\* else the list of scores in input order
RECURSIVE ScoreLoop(_, _, _, _, _)
ScoreLoop(opps, profs, st, now, acc) ==
    IF opps = <<>> THEN [raised |-> FALSE, scored |-> acc]
    ELSE LET opp == Head(opps)
         IN  IF opp.Account = ""
             THEN ScoreLoop(Tail(opps), profs, st, now, acc)
             ELSE IF Raises(opp) THEN [raised |-> TRUE, scored |-> <<>>]
             ELSE ScoreLoop(Tail(opps), profs, st, now,
                            Append(acc, ScoreOne(opp, profs, st, now)))

\* The scorer without the "if not account_id: continue" guard: a record
\* without an account id is scored as a new account
RECURSIVE ScoreLoopNoSkip(_, _, _, _, _)
ScoreLoopNoSkip(opps, profs, st, now, acc) ==
    IF opps = <<>> THEN [raised |-> FALSE, scored |-> acc]
    ELSE LET opp == Head(opps)
         IN  IF Truthy(opp.CloseDate) /\ ~Parses(opp.CloseDate)
             THEN [raised |-> TRUE, scored |-> <<>>]
             ELSE ScoreLoopNoSkip(Tail(opps), profs, st, now,
                                  Append(acc, ScoreOne(opp, profs, st, now)))

score_open_opportunities_no_skip(opps, profs, st, now) ==
    ScoreLoopNoSkip(opps, profs, st, now, <<>>)

score_open_opportunities(opps, profs, st, now) ==
    ScoreLoop(opps, profs, st, now, <<>>)

\* ------------------------------------------------------------ the inputs
RECURSIVE SeqsUpTo(_, _)
SeqsUpTo(S, n) ==
    IF n = 0 THEN {<<>>}
    ELSE LET shorter == SeqsUpTo(S, n - 1)
         IN  shorter \cup {Append(s, x) : s \in {t \in shorter : Len(t) = n - 1},
                                         x \in S}

\* Salesforce record ids are unique: the k-th open opportunity has Id k
WithIds(s) ==
    [k \in 1..Len(s) |->
        [Id |-> k, Account |-> s[k].Account, amount |-> s[k].amount,
         StageName |-> s[k].StageName, Owner |-> s[k].Owner,
         CloseDate |-> s[k].CloseDate]]

InitWith(Won, Lost, Open, Days) ==
    /\ closed_won \in SeqsUpTo(Won, MaxWon)
    /\ closed_lost \in SeqsUpTo(Lost, MaxLost)
    /\ open_opps \in {WithIds(s) : s \in SeqsUpTo(Open, MaxOpen)}
    /\ today \in Days
    /\ pc = "start"
    /\ profiles = NoProfiles
    /\ stats = calculate_normalized_scores(NoProfiles)
    /\ scored_opps = <<>>
    /\ run = 1
    /\ first = <<>>

\* Data-quality inputs: records of accounts A and B or of no account, with a
\* valid or a malformed created date
WonRecords ==
    [Account : {"A", "B", ""}, amount : {10}, CreatedDate : {BadDate, 20},
     CloseDate : {50}, items : {<<"p">>}]

LostRecords == [Account : {"A", "B", ""}]

OpenRecords ==
    [Account : {"A"}, amount : {10}, StageName : {"Proposal"}, Owner : {"Kim"},
     CloseDate : {NoDate}]

Init == InitWith(WonRecords, LostRecords, OpenRecords, {60})

\* Scoring inputs: well-formed history of two deal sizes and cycle times;
\* open opportunities of a profiled, unprofiled or missing account, with a
\* valid or an unparsable close date
ScoreWonRecords ==
    [Account : {"A", "B"}, amount : {10}, CreatedDate : {20},
     CloseDate : {30}, items : {<<"p">>}]
    \cup [Account : {"A", "B"}, amount : {30}, CreatedDate : {20},
          CloseDate : {50}, items : {<<"p", "q">>}]

ScoreOpenRecords ==
    [Account : {"A", "B", ""}, amount : {10, 40}, StageName : {"Proposal"},
     Owner : {"Kim"}, CloseDate : {70}]
    \cup [Account : {"A", ""}, amount : {10}, StageName : {"Proposal"},
          Owner : {"Kim"}, CloseDate : {BadDate}]

InitScore == InitWith(ScoreWonRecords, {}, ScoreOpenRecords, {60})

\* Inputs of two runs on different days
RunDays == {60, 200}

RerunWonRecords ==
    [Account : {"A"}, amount : {10}, CreatedDate : {BadDate, 20},
     CloseDate : {50}, items : {<<"p">>}]

RerunOpenRecords ==
    [Account : {"A", "B"}, amount : {10}, StageName : {"Proposal"},
     Owner : {"Kim"}, CloseDate : {NoDate, 70}]

InitRerun ==
    InitWith(RerunWonRecords, [Account : {"A"}], RerunOpenRecords, RunDays)

\* Mixed history: account A with two deal sizes and cycle times or a
\* malformed created date, account B as the slower cohort member; open
\* opportunities that differ in amount, stage, owner and close date
MixWonRecords ==
    { [Account |-> "A", amount |-> 10, CreatedDate |-> 20, CloseDate |-> 30,
       items |-> <<"p">>],
      [Account |-> "A", amount |-> 30, CreatedDate |-> 20, CloseDate |-> 50,
       items |-> <<"p", "q">>],
      [Account |-> "A", amount |-> 10, CreatedDate |-> BadDate,
       CloseDate |-> 50, items |-> <<"p">>],
      [Account |-> "B", amount |-> 30, CreatedDate |-> 20, CloseDate |-> 50,
       items |-> <<"p", "q">>] }

MixOpenRecords ==
    [Account : {"A"}, amount : {10, 15}, StageName : {"Proposal"},
     Owner : {"Kim"}, CloseDate : {70}]
    \cup { [Account |-> "A", amount |-> 10, StageName |-> "Negotiation",
            Owner |-> "Lee", CloseDate |-> NoDate],
           [Account |-> "B", amount |-> 15, StageName |-> "Proposal",
            Owner |-> "Kim", CloseDate |-> 70] }

InitMix == InitWith(MixWonRecords, {}, MixOpenRecords, {60})

\* Recency inputs: one account closing on day 50, or with an unparsable
\* close date, seen from run days on both sides of each recency threshold
\* and from a day before the close date
RecencyDays == {40, 140, 141, 230, 231, 415, 416}

RecencyWonRecords ==
    [Account : {"A"}, amount : {10}, CreatedDate : {20},
     CloseDate : {50, BadDate}, items : {<<"p">>}]

InitRecency == InitWith(RecencyWonRecords, {}, OpenRecords, RecencyDays)

\* Amount inputs: closed-won records of two sizes or without an amount
\* (float(None or 0) is 0)
AmountWonRecords ==
    [Account : {"A", "B"}, amount : {0, 10, 30}, CreatedDate : {20},
     CloseDate : {50}, items : {<<>>}]

AmountOpenRecords ==
    [Account : {"A", "B"}, amount : {10}, StageName : {"Proposal"},
     Owner : {"Kim"}, CloseDate : {70}]

InitAmount == InitWith(AmountWonRecords, {}, AmountOpenRecords, {60})

\* Closed-lost inputs: up to one more lost record than elsewhere, of the
\* profiled accounts, of an account without closed-won record, or of none
LostWonRecords ==
    [Account : {"A", "B"}, amount : {10}, CreatedDate : {20}, CloseDate : {50},
     items : {<<>>}]

InitLost ==
    /\ closed_won \in SeqsUpTo(LostWonRecords, MaxWon)
    /\ closed_lost \in SeqsUpTo(LostRecords, MaxLost + 1)
    /\ open_opps \in {WithIds(o) : o \in SeqsUpTo(OpenRecords, MaxOpen)}
    /\ today = 60
    /\ pc = "start"
    /\ profiles = NoProfiles
    /\ stats = calculate_normalized_scores(NoProfiles)
    /\ scored_opps = <<>>
    /\ run = 1
    /\ first = <<>>

\* Cycle-time inputs: records closed before, on and after their created date
CycleWonRecords ==
    [Account : {"A"}, amount : {10}, CreatedDate : {20},
     CloseDate : {10, 20, 30}, items : {<<>>}]

InitCycle == InitWith(CycleWonRecords, {}, OpenRecords, {60})

\* Cohort inputs: three accounts with different cycle times and deal sizes,
\* one of them without cycle-time sample or without amount
CohortWonRecords ==
    { [Account |-> "A", amount |-> 10, CreatedDate |-> 20, CloseDate |-> 30,
       items |-> <<"p">>],
      [Account |-> "B", amount |-> 30, CreatedDate |-> 20, CloseDate |-> 50,
       items |-> <<"p", "q">>],
      [Account |-> "C", amount |-> 20, CreatedDate |-> BadDate,
       CloseDate |-> 50, items |-> <<>>],
      [Account |-> "C", amount |-> 0, CreatedDate |-> 20, CloseDate |-> 40,
       items |-> <<>>] }

CohortOpenRecords ==
    [Account : {"A", "B", "C"}, amount : {10}, StageName : {"Proposal"},
     Owner : {"Kim"}, CloseDate : {70}]

InitCohort == InitWith(CohortWonRecords, {}, CohortOpenRecords, {60})

\* ------------------------------------------------------------ main()
BuildAccountProfiles ==
    /\ pc = "start"
    /\ profiles' = build_account_profiles(closed_won, closed_lost, today)
    /\ pc' = "built"
    /\ UNCHANGED <<closed_won, closed_lost, open_opps, today, stats,
                   scored_opps, run, first>>

CalculateNormalizedScores ==
    /\ pc = "built"
    /\ stats' = calculate_normalized_scores(profiles)
    /\ pc' = "stats"
    /\ UNCHANGED <<closed_won, closed_lost, open_opps, today, profiles,
                   scored_opps, run, first>>

\* The scoring step consuming its input: each record is popped off the list
\* as it is scored
ScoreOpenOpportunitiesConsuming ==
    /\ pc = "stats"
    /\ LET r == score_open_opportunities(open_opps, profiles, stats, today)
       IN  /\ scored_opps' = r.scored
           /\ pc' = IF r.raised THEN "raised" ELSE "done"
    /\ open_opps' = <<>>
    /\ UNCHANGED <<closed_won, closed_lost, today, profiles, stats, run, first>>

ScoreOpenOpportunities ==
    /\ pc = "stats"
    /\ LET r == score_open_opportunities(open_opps, profiles, stats, today)
       IN  /\ scored_opps' = r.scored
           /\ pc' = IF r.raised THEN "raised" ELSE "done"
    /\ UNCHANGED <<closed_won, closed_lost, open_opps, today, profiles, stats,
                   run, first>>

\* main() is run a second time on the same record lists, on a day of its own;
\* the results of the first run are kept aside for comparison
Rerun ==
    /\ pc = "done"
    /\ run = 1
    /\ first' = [profiles |-> profiles, stats |-> stats,
                 scored_opps |-> scored_opps, today |-> today]
    /\ today' \in RunDays
    /\ run' = 2
    /\ pc' = "start"
    /\ UNCHANGED <<closed_won, closed_lost, open_opps, profiles, stats,
                   scored_opps>>

Next == BuildAccountProfiles \/ CalculateNormalizedScores
            \/ ScoreOpenOpportunities

NextRerun == Next \/ Rerun

Spec == Init /\ [][Next]_vars

SpecScore == InitScore /\ [][Next]_vars

SpecRerun == InitRerun /\ [][NextRerun]_vars

SpecMix == InitMix /\ [][Next]_vars

SpecRecency == InitRecency /\ [][Next]_vars

SpecAmount == InitAmount /\ [][Next]_vars

SpecLost == InitLost /\ [][Next]_vars

SpecCycle == InitCycle /\ [][Next]_vars

SpecCohort == InitCohort /\ [][Next]_vars

\* ================================================================ claims
\* The number of closed-won / closed-lost input records of account a
WonCount(a) ==
    Cardinality({k \in 1..Len(closed_won) : closed_won[k].Account = a})
LostCount(a) ==
    Cardinality({k \in 1..Len(closed_lost) : closed_lost[k].Account = a})

InRange(x) == RLe(I(0), x) /\ RLe(x, I(100))

\* C1: every sub-score and both composites of every returned OpportunityScore
\* lie in [0, 100].
C1_ScoresInRange ==
    \A k \in 1..Len(scored_opps) :
        LET s == scored_opps[k]
        IN  /\ InRange(s.speed_score) /\ InRange(s.deal_size_score)
            /\ InRange(s.product_mix_score) /\ InRange(s.upsell_score)
            /\ InRange(s.win_rate_score) /\ InRange(s.recency_score)
            /\ InRange(s.account_score) /\ InRange(s.opportunity_score)

\* A profiled account scored with a speed and a deal size strictly inside the
\* range, by an opportunity much larger than the account's average deal
C1_Witness ==
    /\ pc = "done"
    /\ \E k \in 1..Len(scored_opps) :
        LET s == scored_opps[k]
        IN  /\ WonCount(s.account_id) > 0
            /\ RLt(I(0), s.speed_score) /\ RLt(s.speed_score, I(100))
            /\ RLt(s.deal_size_score, I(100))
            /\ RLt(s.account_score, s.opportunity_score)

\* C2: an opportunity whose account has no closed-won deal in the history is
\* scored account_score = opportunity_score = 50 with confidence "Low".
C2_ColdStartNeutral ==
    \A k \in 1..Len(scored_opps) :
        LET s == scored_opps[k]
        IN  WonCount(s.account_id) = 0 =>
                /\ s.account_score = I(50)
                /\ s.opportunity_score = I(50)
                /\ s.confidence_level = "Low"

\* A cold account scored next to a cohort with history, for both amounts
C2_Witness ==
    /\ pc = "done"
    /\ DOMAIN profiles # {}
    /\ \E j, k \in 1..Len(scored_opps) :
        /\ WonCount(scored_opps[j].account_id) = 0
        /\ WonCount(scored_opps[k].account_id) = 0
        /\ scored_opps[j].amount # scored_opps[k].amount

\* C3: every profile's win_rate is in [0, 100] and equals
\* won / (won + lost) x 100, won and lost being the numbers of closed-won and
\* closed-lost input records of the account.
C3_WinRate ==
    pc # "start" =>
        \A a \in DOMAIN profiles :
            LET p == profiles[a]
                won == WonCount(a)
                lost == LostCount(a)
            IN  /\ p.total_closed_won = won
                /\ p.total_closed_lost = lost
                /\ InRange(p.win_rate)
                /\ IF won + lost > 0
                   THEN p.win_rate[1] * (won + lost) = 100 * won * p.win_rate[2]
                   ELSE p.win_rate = I(0)

\* An account with two wins and one loss
C3_Witness ==
    /\ pc = "built"
    /\ \E a \in DOMAIN profiles :
        WonCount(a) = 2 /\ LostCount(a) = 1 /\ profiles[a].win_rate = Rat(200, 3)

\* C4 (as stated): a second run on the same record lists yields the same
\* profiles and the same scores, whatever the day it runs on.
C4_SameOutputAnyDay ==
    (run = 2 /\ pc = "done") =>
        /\ profiles = first.profiles
        /\ scored_opps = first.scored_opps

\* C4 (amended): a second run on the same record lists and on the same day
\* yields the same profiles, cohort statistics and scores.
C4_SameOutputSameDay ==
    (run = 2 /\ pc = "done" /\ today = first.today) =>
        /\ profiles = first.profiles
        /\ stats = first.stats
        /\ scored_opps = first.scored_opps

\* A second run on the day of the first, with a profiled account scored
C4_Witness ==
    /\ run = 2 /\ pc = "done" /\ today = first.today
    /\ \E k \in 1..Len(scored_opps) : WonCount(scored_opps[k].account_id) > 1

\* C5: no data-quality issue (a missing account, a missing or unparsable
\* date) makes build_account_profiles, calculate_normalized_scores or
\* score_open_opportunities raise.
C5_NoExceptionEscapes == pc # "raised"

HasAccount(opp) == opp.Account # ""

Repaired(won, i, created, close) ==
    [won EXCEPT ![i].CreatedDate = created, ![i].CloseDate = close]

Malformed(opp) ==
    \/ ~(Truthy(opp.CreatedDate) /\ Parses(opp.CreatedDate))
    \/ ~(Truthy(opp.CloseDate) /\ Parses(opp.CloseDate))

\* C7: a closed-won record with a missing or unparsable date leaves its
\* account's counts, amounts, upsell fields and product fields as they would
\* be with valid dates on that record; only the cycle-time sample differs.
C7_MalformedDateKeepsProfile ==
    pc # "start" =>
        \A i \in 1..Len(closed_won) :
            LET opp == closed_won[i]
                a == opp.Account
                p == profiles[a]
                q == build_account_profiles(
                         Repaired(closed_won, i, 20, 50), closed_lost, today)[a]
            IN  (a # "" /\ Malformed(opp)) =>
                    /\ p.total_closed_won = q.total_closed_won
                    /\ p.total_deal_amount = q.total_deal_amount
                    /\ p.largest_deal_amount = q.largest_deal_amount
                    /\ p.avg_deal_amount = q.avg_deal_amount
                    /\ p.purchase_count = q.purchase_count
                    /\ p.has_upsell = q.has_upsell
                    /\ p.unique_products = q.unique_products
                    /\ p.product_count = q.product_count

\* C8: every profile has purchase_count = total_closed_won and has_upsell
\* exactly when purchase_count > 1.
C8_PurchaseCount ==
    pc # "start" =>
        \A a \in DOMAIN profiles :
            /\ profiles[a].purchase_count = profiles[a].total_closed_won
            /\ profiles[a].has_upsell = (profiles[a].purchase_count > 1)

\* C9: the confidence level of an opportunity of a profiled account is High
\* for three or more closed-won deals, Medium for exactly two, Low otherwise;
\* it is always one of the three.
C9_ConfidenceTiers ==
    \A k \in 1..Len(scored_opps) :
        LET s == scored_opps[k]
            won == WonCount(s.account_id)
        IN  /\ s.confidence_level \in {"High", "Medium", "Low"}
            /\ won > 0 =>
                s.confidence_level =
                    IF won >= 3 THEN "High"
                    ELSE IF won = 2 THEN "Medium" ELSE "Low"

\* An account with three closed-won deals scored High
C9_Witness ==
    /\ pc = "done"
    /\ \E k \in 1..Len(scored_opps) :
        /\ WonCount(scored_opps[k].account_id) = 3
        /\ scored_opps[k].confidence_level = "High"

UpsellStep(n) ==
    IF n >= 3 THEN 100 ELSE IF n = 2 THEN 70 ELSE IF n = 1 THEN 30 ELSE 0

\* C10: the upsell_score of every scored opportunity of a profiled account is
\* the step 0 -> 0, 1 -> 30, 2 -> 70, >= 3 -> 100 of the account's number of
\* closed-won deals.
C10_UpsellStepOfClosedWon ==
    \A k \in 1..Len(scored_opps) :
        LET s == scored_opps[k]
            won == WonCount(s.account_id)
        IN  won > 0 => s.upsell_score = I(UpsellStep(won))

\* The scored opportunities of accounts with at least one closed-won record
Profiled(k) == WonCount(scored_opps[k].account_id) > 0

\* C11: the account_score of a scored opportunity of a profiled account is
\* 0.15 speed + 0.20 deal_size + 0.15 product_mix + 0.25 upsell +
\* 0.20 win_rate + 0.05 recency of the same record, the weights sum to 1, and
\* two opportunities of one account have the same account_score whatever
\* their amount, stage, owner and close date.
C11_AccountScoreFormula ==
    /\ 15 + 20 + 15 + 25 + 20 + 5 = 100
    /\ \A k \in 1..Len(scored_opps) :
        LET s == scored_opps[k]
        IN  Profiled(k) =>
                s.account_score[1] * 100 * s.speed_score[2]
                    * s.deal_size_score[2] * s.product_mix_score[2]
                    * s.upsell_score[2] * s.win_rate_score[2]
                    * s.recency_score[2]
                = s.account_score[2] *
                    (LET D == s.speed_score[2] * s.deal_size_score[2]
                              * s.product_mix_score[2] * s.upsell_score[2]
                              * s.win_rate_score[2] * s.recency_score[2]
                     IN  15 * s.speed_score[1] * (D \div s.speed_score[2])
                       + 20 * s.deal_size_score[1] * (D \div s.deal_size_score[2])
                       + 15 * s.product_mix_score[1]
                            * (D \div s.product_mix_score[2])
                       + 25 * s.upsell_score[1] * (D \div s.upsell_score[2])
                       + 20 * s.win_rate_score[1] * (D \div s.win_rate_score[2])
                       + 5 * s.recency_score[1] * (D \div s.recency_score[2]))
    /\ \A j, k \in 1..Len(scored_opps) :
        (Profiled(j) /\ scored_opps[j].account_id = scored_opps[k].account_id)
            => scored_opps[j].account_score = scored_opps[k].account_score

\* Two opportunities of one profiled account that differ in amount, stage,
\* owner, close date and opportunity_score
C11_Witness ==
    /\ pc = "done"
    /\ \E j, k \in 1..Len(scored_opps) :
        LET s == scored_opps[j]
            t == scored_opps[k]
        IN  /\ Profiled(j) /\ s.account_id = t.account_id
            /\ s.amount # t.amount /\ s.stage # t.stage
            /\ s.owner_name # t.owner_name /\ s.close_date # t.close_date
            /\ s.opportunity_score # t.opportunity_score
            /\ RLt(I(0), s.speed_score) /\ RLt(s.speed_score, I(50))

\* ratio >= 1.5 -> 100, >= 1.0 -> 75, >= 0.75 -> 50, else 25, for the ratio
\* amount / avg given as amount and the fraction avg = <<n, d>>, n > 0
RatioBucket(amount, avg) ==
    IF 2 * amount * avg[2] >= 3 * avg[1] THEN 100
    ELSE IF amount * avg[2] >= avg[1] THEN 75
    ELSE IF 4 * amount * avg[2] >= 3 * avg[1] THEN 50
    ELSE 25

\* C12: the opportunity_score of a scored opportunity of a profiled account
\* is 0.70 account_score + 0.30 amount-ratio score, the ratio score being the
\* bucket of amount / avg_deal_amount of the account's profile (0 when the
\* profile has no average).
C12_OpportunityScoreFormula ==
    \A k \in 1..Len(scored_opps) :
        LET s == scored_opps[k]
            avg == profiles[s.account_id].avg_deal_amount
            b == IF avg[1] > 0 THEN RatioBucket(s.amount, avg) ELSE 0
        IN  Profiled(k) =>
                10 * s.opportunity_score[1] * s.account_score[2]
                = s.opportunity_score[2]
                    * (7 * s.account_score[1] + 3 * b * s.account_score[2])

\* An opportunity below the account's average deal but within 75% of it
C12_Witness ==
    /\ pc = "done"
    /\ \E k \in 1..Len(scored_opps) :
        LET s == scored_opps[k]
            avg == profiles[s.account_id].avg_deal_amount
        IN  /\ Profiled(k) /\ avg[1] > 0
            /\ RatioBucket(s.amount, avg) = 50
            /\ RLt(s.opportunity_score, s.account_score)

\* The sum of the amounts of the closed-won input records of account a
RECURSIVE AmountOf(_, _)
AmountOf(won, a) ==
    IF won = <<>> THEN 0
    ELSE (IF Head(won).Account = a THEN Head(won).amount ELSE 0)
         + AmountOf(Tail(won), a)

\* The amount-ratio score that went into a record's opportunity_score:
\* (opportunity_score - 0.70 account_score) / 0.30
AmountScoreOf(s) ==
    RDiv(RSub(s.opportunity_score, RMul(s.account_score, Rat(7, 10))),
         Rat(3, 10))

\* C13: the amount-ratio score of a scored opportunity of a profiled account
\* is the bucket (100, 75, 50 or 25) of its amount over the account's average
\* closed-won deal amount; it is never 0.
C13_AmountRatioBuckets ==
    \A k \in 1..Len(scored_opps) :
        LET s == scored_opps[k]
            a == s.account_id
        IN  Profiled(k) =>
                /\ AmountScoreOf(s) # I(0)
                /\ AmountScoreOf(s) =
                       I(RatioBucket(s.amount, Rat(AmountOf(closed_won, a),
                                                   WonCount(a))))

\* x limited to [0, 100]
Limit(x) == IF RLt(x, I(0)) THEN I(0) ELSE IF RLt(I(100), x) THEN I(100) ELSE x

\* The largest avg_days_to_close among the profiled accounts that have one,
\* 365 when none has
CohortMaxDays ==
    LET D == {a \in DOMAIN profiles : profiles[a].avg_days_to_close[1] > 0}
    IN  IF D = {} THEN I(365)
        ELSE profiles[CHOOSE a \in D : \A b \in D :
                 RLe(profiles[b].avg_days_to_close,
                     profiles[a].avg_days_to_close)].avg_days_to_close

LinearSpeed(avg) ==
    Limit(RSub(I(100), RMul(RDiv(avg, CohortMaxDays), I(100))))

\* C14 (as stated): the speed_score of a scored opportunity of a profiled
\* account is clamp(100 - avg_days_to_close / cohort max x 100, 0, 100) for
\* every avg_days_to_close, 0 included.
C14_SpeedLinearAlways ==
    \A k \in 1..Len(scored_opps) :
        Profiled(k) =>
            scored_opps[k].speed_score =
                LinearSpeed(profiles[scored_opps[k].account_id].avg_days_to_close)

\* C14 (amended): the speed_score is clamp(100 - avg_days_to_close / cohort
\* max x 100, 0, 100) when avg_days_to_close > 0, and the neutral 50 when
\* avg_days_to_close is 0 (the account has no cycle-time sample).
C14_SpeedLinearOrNeutral ==
    \A k \in 1..Len(scored_opps) :
        LET p == profiles[scored_opps[k].account_id]
        IN  Profiled(k) =>
                scored_opps[k].speed_score =
                    IF p.avg_days_to_close[1] > 0
                    THEN LinearSpeed(p.avg_days_to_close)
                    ELSE I(50)

\* An account faster than the cohort's slowest, scored strictly between 0
\* and 100
C14_Witness ==
    /\ pc = "done"
    /\ \E k \in 1..Len(scored_opps) :
        LET s == scored_opps[k]
        IN  /\ Profiled(k)
            /\ RLt(profiles[s.account_id].avg_days_to_close, CohortMaxDays)
            /\ RLt(I(0), s.speed_score) /\ RLt(s.speed_score, I(100))

\* The largest largest_deal_amount among the profiled accounts, the fixed
\* ceiling when none is positive
CohortMaxDeal ==
    LET D == {a \in DOMAIN profiles : profiles[a].largest_deal_amount > 0}
    IN  IF D = {} THEN 1000000
        ELSE profiles[CHOOSE a \in D : \A b \in D :
                 profiles[b].largest_deal_amount <=
                     profiles[a].largest_deal_amount].largest_deal_amount

LinearDealSize(largest) == Limit(Rat(largest * 100, CohortMaxDeal))

ProductsOf(a) ==
    UNION { {closed_won[k].items[m] : m \in 1..Len(closed_won[k].items)} :
            k \in {j \in 1..Len(closed_won) : closed_won[j].Account = a} }

\* C16: the product_mix_score of a scored opportunity of a profiled account is
\* min(20 x P, 100), P the number of distinct product names on the line items
\* of all of the account's closed-won records.
C16_ProductMixOfClosedWon ==
    \A k \in 1..Len(scored_opps) :
        LET P == Cardinality(ProductsOf(scored_opps[k].account_id))
        IN  Profiled(k) =>
                scored_opps[k].product_mix_score =
                    I(IF 20 * P < 100 THEN 20 * P ELSE 100)

\* The parsable close dates of the account's closed-won records
CloseDatesOf(a) ==
    {closed_won[k].CloseDate :
        k \in {j \in 1..Len(closed_won) :
                  closed_won[j].Account = a /\ Parses(closed_won[j].CloseDate)}}

\* Days from the account's most recent parsable close date to the run date
\* (for an account that has one)
DaysSinceLastClose(a) ==
    today - (CHOOSE d \in CloseDatesOf(a) : \A e \in CloseDatesOf(a) : e <= d)

RecencyStep(d) ==
    IF d <= 90 THEN 100 ELSE IF d <= 180 THEN 75 ELSE IF d <= 365 THEN 50 ELSE 25

\* C17 (as stated): every scored opportunity of a profiled account has a
\* days_since_last_close, and its recency_score is the step function of it
\* (<= 90 -> 100, <= 180 -> 75, <= 365 -> 50, otherwise 25).
C17_RecencyStepAlways ==
    \A k \in 1..Len(scored_opps) :
        LET a == scored_opps[k].account_id
        IN  Profiled(k) =>
                /\ CloseDatesOf(a) # {}
                /\ scored_opps[k].recency_score =
                       I(RecencyStep(DaysSinceLastClose(a)))

\* C17 (amended): the recency_score of a scored opportunity of a profiled
\* account is the step function of the days since the account's most recent
\* parsable close date when it has one, and 50 when it has none; the score
\* never increases from one day count to the next and is never 0.
C17_RecencyStepOrNeutral ==
    /\ \A k \in 1..Len(scored_opps) :
        LET a == scored_opps[k].account_id
        IN  Profiled(k) =>
                /\ scored_opps[k].recency_score =
                       IF CloseDatesOf(a) # {}
                       THEN I(RecencyStep(DaysSinceLastClose(a)))
                       ELSE I(50)
                /\ RLt(I(0), scored_opps[k].recency_score)
    /\ \A d \in -30..400 :
        RLe(recency_score([days_since_last_close |-> Some(d + 1)]),
            recency_score([days_since_last_close |-> Some(d)]))

\* An account scored exactly 90 days after its last close: the last day of
\* the top step
C17_Witness ==
    /\ pc = "done"
    /\ \E k \in 1..Len(scored_opps) :
        /\ Profiled(k)
        /\ profiles[scored_opps[k].account_id].days_since_last_close = Some(90)
        /\ scored_opps[k].recency_score = I(100)

\* C18: with an empty profile map the cohort statistics carry the fallback
\* maxima 365 (days_to_close) and a positive ceiling (largest_deal) and every
\* scored opportunity has account_score = opportunity_score = 50; and for
\* every profile map the divisors of the speed and the deal size
\* normalisation are strictly positive.
C18_EmptyCohortNeutral ==
    pc \in {"stats", "done"} =>
        /\ DOMAIN profiles = {} =>
            /\ stats.days_to_close[2] = I(365)
            /\ RLt(I(0), stats.largest_deal[2])
            /\ \A k \in 1..Len(scored_opps) :
                /\ scored_opps[k].account_score = I(50)
                /\ scored_opps[k].opportunity_score = I(50)
        /\ RLt(I(0), max_days(stats))
        /\ RLt(I(0), max_deal(stats))

\* Closed-won records none of which carries an account id: the profile map
\* is empty and an open opportunity has been scored against it
C18_Witness ==
    /\ pc = "done"
    /\ Len(closed_won) > 0
    /\ DOMAIN profiles = {}
    /\ Len(scored_opps) > 0
    /\ scored_opps[1].opportunity_score = I(50)

\* Every closed-won record has a positive amount and parsable dates
WellFormedWon ==
    \A k \in 1..Len(closed_won) :
        /\ closed_won[k].amount > 0
        /\ Parses(closed_won[k].CreatedDate)
        /\ Parses(closed_won[k].CloseDate)

\* C19: for inputs with positive amounts and parsable created/close dates,
\* every numeric field of every profile returned by build_account_profiles
\* is non-negative, days_since_last_close included.
C19_ProfileFieldsNonNegative ==
    (pc # "start" /\ WellFormedWon) =>
        \A a \in DOMAIN profiles :
            LET p == profiles[a]
            IN  /\ p.total_closed_won >= 0
                /\ p.total_closed_lost >= 0
                /\ RLe(I(0), p.win_rate)
                /\ RLe(I(0), p.avg_days_to_close)
                /\ RLe(I(0), p.median_days_to_close)
                /\ p.largest_deal_amount >= 0
                /\ RLe(I(0), p.avg_deal_amount)
                /\ p.total_deal_amount >= 0
                /\ p.product_count >= 0
                /\ p.purchase_count >= 0
                /\ p.days_since_last_close # None =>
                       p.days_since_last_close[1] >= 0

\* The account ids carried by the closed-won records
WonAccounts ==
    {closed_won[k].Account : k \in 1..Len(closed_won)} \ {""}

\* C20: the profile map has an entry for an account id exactly when a
\* closed-won record carries it, every profile has total_closed_won >= 1
\* (the number of the account's closed-won records), and total_closed_lost
\* is the number of the account's closed-lost records: a closed-lost record
\* of an account without closed-won record creates no profile and is counted
\* in no profile.
C20_ProfiledIffClosedWon ==
    pc # "start" =>
        /\ DOMAIN profiles = WonAccounts
        /\ \A a \in DOMAIN profiles :
            /\ profiles[a].total_closed_won >= 1
            /\ profiles[a].total_closed_won = WonCount(a)
            /\ profiles[a].total_closed_lost = LostCount(a)

\* A closed-lost record of the profiled account A and one of account B, which
\* has no closed-won record and no profile
C20_Witness ==
    /\ pc = "built"
    /\ LostCount("A") = 1 /\ LostCount("B") = 1
    /\ WonCount("B") = 0 /\ "B" \notin DOMAIN profiles
    /\ "A" \in DOMAIN profiles /\ profiles["A"].total_closed_lost = 1

\* The list s without its i-th element
Without(s, i) == SubSeq(s, 1, i - 1) \o SubSeq(s, i + 1, Len(s))

\* C21: a closed-won or closed-lost record without account id is skipped:
\* the profile map is the one built from the input without that record, and
\* every record that carries an account id is counted in its profile.
C21_MissingAccountSkipped ==
    pc # "start" =>
        /\ \A i \in 1..Len(closed_won) :
            closed_won[i].Account = "" =>
                profiles = build_account_profiles(
                               Without(closed_won, i), closed_lost, today)
        /\ \A i \in 1..Len(closed_lost) :
            closed_lost[i].Account = "" =>
                profiles = build_account_profiles(
                               closed_won, Without(closed_lost, i), today)
        /\ \A a \in WonAccounts :
            /\ a \in DOMAIN profiles
            /\ profiles[a].total_closed_won = WonCount(a)
            /\ profiles[a].total_closed_lost = LostCount(a)

\* A closed-won record without account id ahead of a record of account A, and
\* a closed-lost record without account id
C21_Witness ==
    /\ pc = "built"
    /\ Len(closed_won) >= 2
    /\ closed_won[1].Account = "" /\ closed_won[2].Account = "A"
    /\ closed_lost = <<[Account |-> ""]>>
    /\ "A" \in DOMAIN profiles /\ profiles["A"].total_closed_won >= 1

\* The amounts of the closed-won records of account a, in input order
RECURSIVE AmountsOf(_, _)
AmountsOf(won, a) ==
    IF won = <<>> THEN <<>>
    ELSE IF Head(won).Account = a
         THEN <<Head(won).amount>> \o AmountsOf(Tail(won), a)
         ELSE AmountsOf(Tail(won), a)

RECURSIVE Sum(_)
Sum(s) == IF s = <<>> THEN 0 ELSE Head(s) + Sum(Tail(s))

\* C22: every profile has avg_deal_amount = total_deal_amount /
\* total_closed_won, total_deal_amount the sum and largest_deal_amount the
\* maximum of the amounts of all of the account's closed-won records, with or
\* without cycle-time sample.
C22_AvgDealAmount ==
    pc # "start" =>
        \A a \in DOMAIN profiles :
            LET p == profiles[a]
                amounts == AmountsOf(closed_won, a)
            IN  /\ p.total_deal_amount = Sum(amounts)
                /\ \E k \in 1..Len(amounts) : p.largest_deal_amount = amounts[k]
                /\ \A k \in 1..Len(amounts) : amounts[k] <= p.largest_deal_amount
                /\ p.avg_deal_amount =
                       Rat(p.total_deal_amount, p.total_closed_won)

\* C23: the score_explanation of a scored opportunity is the "no historical
\* data" message exactly when its account has no closed-won record, and the
\* outcome is then the neutral 50 / 50 / Low; it is the computed summary,
\* naming the account's number of closed-won records, exactly when the
\* account has one.
C23_ExplanationSeparatesOutcomes ==
    \A k \in 1..Len(scored_opps) :
        LET s == scored_opps[k]
            e == s.score_explanation
        IN  /\ (e = NewAccountExplanation) <=> (WonCount(s.account_id) = 0)
            /\ (e.kind = "Account has closed won deal(s)")
                   <=> (WonCount(s.account_id) > 0)
            /\ WonCount(s.account_id) = 0 =>
                   /\ s.account_score = I(50)
                   /\ s.opportunity_score = I(50)
                   /\ s.confidence_level = "Low"
            /\ WonCount(s.account_id) > 0 =>
                   e.closed_won = WonCount(s.account_id)

\* One result list with an opportunity of either kind
C23_Witness ==
    /\ pc = "done"
    /\ \E j, k \in 1..Len(scored_opps) :
        /\ WonCount(scored_opps[j].account_id) = 0
        /\ scored_opps[j].score_explanation = NewAccountExplanation
        /\ WonCount(scored_opps[k].account_id) > 0
        /\ scored_opps[k].score_explanation.closed_won >= 1

\* (close - created).days of the closed-won records of account a whose dates
\* both parse and whose close date is not before the created date, in input
\* order
RECURSIVE DurationsOf(_, _)
DurationsOf(won, a) ==
    IF won = <<>> THEN <<>>
    ELSE LET opp == Head(won)
         IN  IF /\ opp.Account = a
                /\ Parses(opp.CreatedDate) /\ Parses(opp.CloseDate)
                /\ opp.CloseDate >= opp.CreatedDate
             THEN <<opp.CloseDate - opp.CreatedDate>>
                      \o DurationsOf(Tail(won), a)
             ELSE DurationsOf(Tail(won), a)

\* C24: the cycle-time sample of a profile holds (close - created).days of
\* exactly the account's closed-won records whose dates both parse and whose
\* close date is on or after the created date (a same-day close contributes
\* 0); records left out of the sample are still counted in total_closed_won.
C24_CycleTimeSample ==
    pc # "start" =>
        \A a \in DOMAIN profiles :
            LET sample == profiles[a].closed_opportunities
            IN  /\ [k \in 1..Len(sample) |-> sample[k].days_to_close]
                       = DurationsOf(closed_won, a)
                /\ profiles[a].total_closed_won = WonCount(a)

\* The four metrics of the profile of account a
WinRateOf(a) == profiles[a].win_rate
AvgDaysOf(a) == profiles[a].avg_days_to_close
LargestDealOf(a) == I(profiles[a].largest_deal_amount)
ProductCountOf(a) == I(profiles[a].product_count)

\* t = <<min, max, median, ...>> describes the values val(a) of the accounts
\* of the non-empty population Pop: min and max are the smallest and the
\* largest value, and at least half of the values lie on either side of the
\* median
Describes(t, Pop, val(_)) ==
    /\ \E a \in Pop : t[1] = val(a)
    /\ \A a \in Pop : RLe(t[1], val(a))
    /\ \E a \in Pop : t[2] = val(a)
    /\ \A a \in Pop : RLe(val(a), t[2])
    /\ RLe(t[1], t[3]) /\ RLe(t[3], t[2])
    /\ 2 * Cardinality({a \in Pop : RLe(val(a), t[3])}) >= Cardinality(Pop)
    /\ 2 * Cardinality({a \in Pop : RLe(t[3], val(a))}) >= Cardinality(Pop)

\* C25 (as stated): for a non-empty profile map, the (min, max, median) of
\* each of the four metrics are those of the values of all profiled accounts.
C25_StatsOverAllProfiled ==
    (pc \in {"stats", "done"} /\ DOMAIN profiles # {}) =>
        /\ Describes(stats.win_rate, DOMAIN profiles, WinRateOf)
        /\ Describes(stats.days_to_close, DOMAIN profiles, AvgDaysOf)
        /\ Describes(stats.largest_deal, DOMAIN profiles, LargestDealOf)
        /\ Describes(stats.product_count, DOMAIN profiles, ProductCountOf)

\* The profiled accounts with a cycle-time sample / with a positive amount
WithCycleTime == {a \in DOMAIN profiles : RLt(I(0), AvgDaysOf(a))}
WithDeal == {a \in DOMAIN profiles : profiles[a].largest_deal_amount > 0}

\* C25 (amended): for a non-empty profile map, win_rate and product_count are
\* described over all profiled accounts, avg_days_to_close over the profiled
\* accounts whose avg_days_to_close is positive and largest_deal_amount over
\* those whose largest_deal_amount is positive; a metric none of whose values
\* is positive gets the fallback (0, 365, 90) resp. (0, 1000000, 50000).
C25_StatsOverPositiveValues ==
    (pc \in {"stats", "done"} /\ DOMAIN profiles # {}) =>
        /\ Describes(stats.win_rate, DOMAIN profiles, WinRateOf)
        /\ Describes(stats.product_count, DOMAIN profiles, ProductCountOf)
        /\ IF WithCycleTime # {}
           THEN Describes(stats.days_to_close, WithCycleTime, AvgDaysOf)
           ELSE /\ stats.days_to_close[1] = I(0)
                /\ stats.days_to_close[2] = I(365)
                /\ stats.days_to_close[3] = I(90)
        /\ IF WithDeal # {}
           THEN Describes(stats.largest_deal, WithDeal, LargestDealOf)
           ELSE /\ stats.largest_deal[1] = I(0)
                /\ stats.largest_deal[2] = I(1000000)
                /\ stats.largest_deal[3] = I(50000)

\* Three profiled accounts, one of them without cycle-time sample: the
\* cohort's smallest avg_days_to_close is 0, the statistics' minimum is not
C25_Witness ==
    /\ pc = "stats"
    /\ Cardinality(DOMAIN profiles) = 3
    /\ \E a \in DOMAIN profiles : AvgDaysOf(a) = I(0)
    /\ Cardinality(WithCycleTime) = 2
    /\ RLt(I(0), stats.days_to_close[1])
    /\ RLt(stats.days_to_close[1], stats.days_to_close[3])

\* C26: the scoring step leaves the profile map, the cohort statistics and
\* the open opportunity records as they were, whether it returns or raises.
C26_ScoringReadOnly ==
    [][pc = "stats" =>
          /\ profiles' = profiles
          /\ stats' = stats
          /\ open_opps' = open_opps]_vars

\* Opportunities of a profiled account have been scored from a non-empty
\* input list, and the profiles are still those the builder returns
C26_Witness ==
    /\ pc = "done"
    /\ Len(open_opps) = MaxOpen
    /\ \E k \in 1..Len(scored_opps) : Profiled(k)
    /\ profiles = build_account_profiles(closed_won, closed_lost, today)
    /\ stats = calculate_normalized_scores(profiles)

\* The records a call of the scorer yields: none when it raises
Yield(opps) ==
    LET r == score_open_opportunities(opps, profiles, stats, today)
    IN  IF r.raised THEN <<>> ELSE r.scored

\* C27: scoring the list yields, for each opportunity, the record that
\* scoring this opportunity alone yields, and the result of the list is the
\* results of the two parts of any partition of it, one after the other.
C27_PerOpportunityIndependence ==
    pc \in {"done", "raised"} =>
        /\ \A i \in 1..Len(open_opps) :
            \A k \in 1..Len(Yield(<<open_opps[i]>>)) :
                \E j \in 1..Len(scored_opps) :
                    scored_opps[j] = Yield(<<open_opps[i]>>)[k]
        /\ \A i \in 0..Len(open_opps) :
            scored_opps = Yield(SubSeq(open_opps, 1, i))
                              \o Yield(SubSeq(open_opps, i + 1, Len(open_opps)))

\* The rearrangements of the list s
Rearrangements(s) ==
    LET n == Len(s)
        F == {f \in [1..n -> 1..n] : \A i, j \in 1..n : f[i] = f[j] => i = j}
    IN  {[k \in 1..n |-> s[f[k]]] : f \in F}

\* The fields of a profile that C28 names
OrderFreeFields(p) ==
    <<p.total_closed_won, p.total_closed_lost, p.win_rate,
      p.largest_deal_amount, p.total_deal_amount, p.avg_deal_amount,
      p.unique_products, p.purchase_count, p.has_upsell,
      p.most_recent_close_date, p.avg_days_to_close, p.median_days_to_close>>

\* C28, with amounts added exactly: for every rearrangement of the closed-won
\* and of the closed-lost list the builder returns the same account ids and,
\* per account, the same counts, win_rate, deal amounts, product set,
\* purchase_count, has_upsell, most_recent_close_date and avg / median
\* days_to_close.
C28_OrderIndependentExactSums ==
    pc # "start" =>
        \A won \in Rearrangements(closed_won),
           lost \in Rearrangements(closed_lost) :
            LET q == build_account_profiles(won, lost, today)
            IN  /\ DOMAIN q = DOMAIN profiles
                /\ \A a \in DOMAIN q :
                    OrderFreeFields(q[a]) = OrderFreeFields(profiles[a])

\* The profiles built from the closed-won list and the first n closed-lost
\* records
WithLost(n) ==
    build_account_profiles(closed_won, SubSeq(closed_lost, 1, n), today)

\* C29: the profiles agree with those built with an empty closed-lost list on
\* the account ids and on every field but total_closed_lost and win_rate, and
\* each further closed-lost record leaves every account's win_rate as it is
\* or lowers it.
C29_ClosedLostFrame ==
    pc # "start" =>
        /\ DOMAIN profiles = DOMAIN WithLost(0)
        /\ \A a \in DOMAIN profiles :
            [profiles[a] EXCEPT !.total_closed_lost = 0,
                                !.win_rate = WithLost(0)[a].win_rate]
                = WithLost(0)[a]
        /\ \A n \in 1..Len(closed_lost) :
            \A a \in DOMAIN profiles :
                RLe(WithLost(n)[a].win_rate, WithLost(n - 1)[a].win_rate)

\* Two closed-lost records of a profiled account: its win_rate is below the
\* 100 it has without them
C29_Witness ==
    /\ pc = "built"
    /\ \E a \in DOMAIN profiles :
        /\ profiles[a].total_closed_lost = 2
        /\ RLt(profiles[a].win_rate, WithLost(1)[a].win_rate)
        /\ WithLost(0)[a].win_rate = I(100)

\* Account a has the largest avg_days_to_close / largest_deal_amount of the
\* profiled accounts
SlowestOfCohort(a) ==
    \A b \in DOMAIN profiles : RLe(AvgDaysOf(b), AvgDaysOf(a))
LargestOfCohort(a) ==
    \A b \in DOMAIN profiles : RLe(LargestDealOf(b), LargestDealOf(a))

\* C30 (as stated): every scored opportunity of the account with the
\* cohort-largest avg_days_to_close has speed_score 0, every one of the
\* account with the cohort-largest largest_deal_amount has deal_size_score
\* 100, and none of an account with a cycle-time sample has speed_score 100.
C30_CohortExtremes ==
    \A k \in 1..Len(scored_opps) :
        LET s == scored_opps[k]
            a == s.account_id
        IN  Profiled(k) =>
                /\ SlowestOfCohort(a) => s.speed_score = I(0)
                /\ LargestOfCohort(a) => s.deal_size_score = I(100)
                /\ profiles[a].closed_opportunities # <<>> =>
                       s.speed_score # I(100)

\* C30 (amended): as C30, for a cohort-largest avg_days_to_close and a
\* cohort-largest largest_deal_amount that are positive; when they are 0 the
\* scores are the 50 and the 25 of an account without data.
C30_PositiveCohortExtremes ==
    \A k \in 1..Len(scored_opps) :
        LET s == scored_opps[k]
            a == s.account_id
        IN  Profiled(k) =>
                /\ SlowestOfCohort(a) =>
                       s.speed_score =
                           IF RLt(I(0), AvgDaysOf(a)) THEN I(0) ELSE I(50)
                /\ LargestOfCohort(a) =>
                       s.deal_size_score =
                           IF RLt(I(0), LargestDealOf(a)) THEN I(100)
                           ELSE I(25)
                /\ profiles[a].closed_opportunities # <<>> =>
                       s.speed_score # I(100)

\* The slower of two accounts scored with speed 0, the faster one strictly
\* between 0 and 100, and the account with the largest deal with 100
C30_Witness ==
    /\ pc = "done"
    /\ \E j, k \in 1..Len(scored_opps) :
        LET s == scored_opps[j]
            t == scored_opps[k]
        IN  /\ Profiled(j) /\ Profiled(k)
            /\ SlowestOfCohort(s.account_id) /\ s.speed_score = I(0)
            /\ LargestOfCohort(s.account_id) /\ s.deal_size_score = I(100)
            /\ RLt(I(0), AvgDaysOf(t.account_id))
            /\ RLt(I(0), t.speed_score) /\ RLt(t.speed_score, I(100))

====
